---- MODULE Spec2Model ----
(***************************************************************************)
(* Model of the two scripts of the repository.                             *)
(*                                                                         *)
(*   task2.py  Monte Carlo (rejection sampling) integration: integral_mc   *)
(*             and its driver usage_example, over the module-global        *)
(*             generator of Python's random module.                        *)
(*   task1.py  production_optimization: an integer linear program handed   *)
(*             to the PuLP solver.                                         *)
(*                                                                         *)
(* Reals are fixed-point numbers: the integer v stands for v / Unit, where *)
(* Unit = RngRes is the resolution of random.random().  Quotients are kept *)
(* exact as pairs <<numerator, denominator>> with a positive denominator.  *)
(***************************************************************************)
EXTENDS Integers, Sequences, FiniteSets, TLC

VARIABLES
    prog,       \* which script the process runs: "task1" or "task2"
    rng,        \* state of the module-global generator of random
    rngEntry,   \* rng as it was when the current integral_mc call was entered
    args,       \* arguments of the current integral_mc call
    pc,         \* position inside integral_mc
    i,          \* points of range(points_number) already classified
    y,          \* the y coordinate drawn for the point being classified
    count,      \* running tally of points under the curve
    points,     \* the points sampled by the current call, in order
    error,      \* exception that ended integral_mc, or NoError
    estimate,   \* value returned by integral_mc (some = FALSE: none yet)
    prev,       \* outcome of the preceding call with the same arguments
    upc,        \* position inside usage_example
    uargs,      \* arguments of the current usage_example call
    analytical, \* analytical_result of usage_example
    difference, \* difference_percent of usage_example
    uerror,     \* exception that ended usage_example, or NoError
    shown,      \* what usage_example has printed / plotted so far
    lpc,        \* position inside production_optimization / main of task1
    model,      \* the LpProblem: objective and constraints added so far
    solution,   \* what model.solve() left in the variables
    result      \* the dict returned by production_optimization

vars == <<prog, rng, rngEntry, args, pc, i, y, count, points, error, estimate,
          prev, upc, uargs, analytical, difference, uerror, shown,
          lpc, model, solution, result>>

mcVars == <<rng, rngEntry, args, pc, i, y, count, points, error, estimate, prev>>
usageVars == <<upc, uargs, analytical, difference, uerror, shown>>
lpVars == <<lpc, model, solution, result>>

----------------------------------------------------------------------------
(* Bounds of the model *)

\* largest accepted points_number that is tried
MaxPoints == 2
\* number of states of the generator
RngMod == 8
\* number of distinct values random.random() can return
RngRes == 4

\* fixed-point unit: the integer Unit stands for the real 1.0
Unit == RngRes

\* no exception
NoError == "none"
\* the seed argument: None, or the int k
NoSeed == [given |-> FALSE, k |-> 0]
Seed(k) == [given |-> TRUE, k |-> k]

----------------------------------------------------------------------------
(* Exact quotients *)

Rat(n, d) == <<n, d>>
RatLe(a, b) == a[1] * b[2] <= b[1] * a[2]
RatEq(a, b) == a[1] * b[2] = b[1] * a[2]
RatIsZero(a) == a[1] = 0
Abs(n) == IF n < 0 THEN -n ELSE n

----------------------------------------------------------------------------
(* The module-global generator of random (task2.py line 8)                 *)

\* one step of the generator
Advance(s) == (5 * s + 3) % RngMod

\* the value random.random() = Output(s) / RngRes read off the new state s
Output(s) == (3 * s + s \div RngRes) % RngRes

\* the state random.seed(k) puts the generator in
SeedState(k) == (3 * k + 1) % RngMod

SeedValues == {0, 1}
Seeds == {NoSeed} \cup {Seed(k) : k \in SeedValues}

\* lines 45-46 broken: the seed is ignored
ReseedIgnored(s, seed) == s

\* lines 45-46: if seed is not None: random.seed(seed)
Reseed(s, seed) == IF seed.given THEN SeedState(seed.k) ELSE s

\* random.uniform(0, b) = 0 + (b - 0) * random.random(), r the value drawn
Uniform(b, r) == (b * r) \div RngRes

----------------------------------------------------------------------------
(* Functions handed to integral_mc                                         *)

\* floor of the square root of n >= 0
ISqrt(n) == CHOOSE r \in 0..n : r * r <= n /\ (r + 1) * (r + 1) > n

\*   "sqrt"       func_to_test: x ** 0.5 (for x < 0 the value is complex and
\*                the comparison of line 51 raises TypeError)
\*   "zero"       lambda x: 0 * x
\*   "partial"    1.0 below x = 1, raises from x = 1 on
\*   "np_float64" numpy.float64: the identity, returning a numpy scalar
Funcs == {"sqrt", "zero", "partial", "np_float64"}

Value(v, isNp) == [fault |-> FALSE, v |-> v, np |-> isNp]
Fault == [fault |-> TRUE, v |-> 0, np |-> FALSE]

ApplyFunc(f, x) ==
    CASE f = "sqrt" -> IF x < 0 THEN Fault ELSE Value(ISqrt(x * Unit), FALSE)
      [] f = "zero" -> Value(0, FALSE)
      [] f = "partial" -> IF x >= Unit THEN Fault ELSE Value(Unit, FALSE)
      [] f = "np_float64" -> Value(x, TRUE)

----------------------------------------------------------------------------
(* integral_mc (task2.py lines 24-55)                                      *)

\* points_number: an int n, or a float n / d
IntPn(n) == [isInt |-> TRUE, n |-> n, d |-> 1]
FloatPn(n, d) == [isInt |-> FALSE, n |-> n, d |-> d]

PointsNumbers == {IntPn(n) : n \in {-5} \cup (0..MaxPoints)} \cup {FloatPn(7, 2)}

Xmaxs == {-Unit, 0, Unit, 2 * Unit}
Ymaxs == {Value(v, FALSE) : v \in {-Unit, 0, Unit}}

McArgs == [xmax : Xmaxs, ymax : Ymaxs, func : Funcs,
           points_number : PointsNumbers, seed : Seeds]

NoArgs == [xmax |-> 0, ymax |-> Value(0, FALSE), func |-> "zero",
           points_number |-> IntPn(0), seed |-> NoSeed]

\* line 42: points_number < 0 or not isinstance(points_number, int)
Rejects(pn) == pn.n < 0 \/ ~pn.isInt

\* line 51 broken: a point on the curve is not counted
UnderStrict(yv, fv) == yv < fv.v

\* line 51: random.uniform(0, ymax) <= func(random.uniform(0, xmax))
Under(yv, fv) == yv <= fv.v

\* lines 49-52 broken: the fault of func is swallowed and the point skipped
RaisesNever(fv) == FALSE

\* lines 49-52: an exception of func leaves the generator expression and sum
Raises(fv) == fv.fault

\* no value returned (yet)
NoEstimate == [some |-> FALSE, q |-> Rat(0, 1), np |-> FALSE]

\* lines 54-55 broken: the division by points_number is missing
EstimateUnscaled(cnt, n, xmax, ymax) ==
    [some |-> TRUE, q |-> Rat(cnt * (xmax * ymax.v), Unit * Unit),
     np |-> ymax.np]

\* lines 54-55: (points_under_curve / points_number) * (xmax * ymax); the
\* product with a numpy scalar ymax is a numpy scalar
Estimate(cnt, n, xmax, ymax) ==
    [some |-> TRUE, q |-> Rat(cnt * (xmax * ymax.v), n * (Unit * Unit)),
     np |-> ymax.np]

Finished == pc \in {"returned", "failed"}

\* what a finished call hands to its caller
Outcome == [pc |-> pc, error |-> error, estimate |-> estimate]

\* lines 24-43: entry of integral_mc with arguments a, and the validation
Enter(a) ==
    /\ args' = a
    /\ rngEntry' = rng
    /\ i' = 0
    /\ y' = 0
    /\ count' = 0
    /\ points' = <<>>
    /\ estimate' = NoEstimate
    /\ IF Rejects(a.points_number)
          THEN pc' = "failed" /\ error' = "ValueError"
          ELSE pc' = "seed" /\ error' = NoError
    /\ UNCHANGED rng

\* the state of integral_mc outside any call
ResetMc ==
    /\ args' = NoArgs
    /\ rngEntry' = rng
    /\ pc' = "idle"
    /\ i' = 0
    /\ y' = 0
    /\ count' = 0
    /\ points' = <<>>
    /\ error' = NoError
    /\ estimate' = NoEstimate
    /\ UNCHANGED rng

NoOutcome == [pc |-> "idle", error |-> NoError, estimate |-> NoEstimate]

\* neither integral_mc nor usage_example is running
Quiescent ==
    /\ prog = "task2"
    /\ pc \in {"idle", "returned", "failed"}
    /\ upc \in {"none", "rejected", "failed", "done"}

NoReal == [some |-> FALSE, q |-> Rat(0, 1)]
NoDifference == [some |-> FALSE, nan |-> FALSE, q |-> Rat(0, 1)]
NoUsageArgs == [xmax |-> 0, points_number |-> IntPn(0), func |-> "zero"]

ResetUsage ==
    /\ upc' = "none"
    /\ uargs' = NoUsageArgs
    /\ analytical' = NoReal
    /\ difference' = NoDifference
    /\ uerror' = NoError
    /\ shown' = {}

\* no call has been made, or the last one's outcome has been dropped
Idle == Quiescent /\ pc = "idle" /\ upc = "none"

\* a call integral_mc(xmax, ymax, func, points_number, seed) by some caller
CallIntegralMc(a) ==
    /\ Idle
    /\ Enter(a)
    /\ prev' = NoOutcome
    /\ ResetUsage
    /\ UNCHANGED <<prog, lpVars>>

\* the same call made once more, with the arguments of the call before
CallAgain ==
    /\ Quiescent
    /\ Finished
    /\ upc = "none"
    /\ Enter(args)
    /\ prev' = Outcome
    /\ UNCHANGED <<prog, usageVars, lpVars>>

\* lines 45-46, and the start of the loop over range(points_number)
SeedStep ==
    /\ pc = "seed"
    /\ rng' = Reseed(rng, args.seed)
    /\ pc' = IF args.points_number.n > 0 THEN "drawY" ELSE "finish"
    /\ UNCHANGED <<prog, rngEntry, args, i, y, count, points, error, estimate,
                   prev, usageVars, lpVars>>

\* line 51, left operand: random.uniform(0, ymax) is evaluated first
DrawY ==
    /\ pc = "drawY"
    /\ rng' = Advance(rng)
    /\ y' = Uniform(args.ymax.v, Output(rng'))
    /\ pc' = "drawX"
    /\ UNCHANGED <<prog, rngEntry, args, i, count, points, error, estimate,
                   prev, usageVars, lpVars>>

\* line 51, right operand and the comparison; lines 49-50, the tally
DrawX ==
    /\ pc = "drawX"
    /\ rng' = Advance(rng)
    /\ LET x == Uniform(args.xmax, Output(rng'))
           fv == ApplyFunc(args.func, x)
       IN /\ points' = Append(points, [x |-> x, y |-> y])
          /\ IF Raises(fv)
                THEN /\ pc' = "failed"
                     /\ error' = "FuncFault"
                     /\ UNCHANGED <<i, count>>
                ELSE /\ count' = IF Under(y, fv) THEN count + 1 ELSE count
                     /\ i' = i + 1
                     /\ pc' = IF i + 1 < args.points_number.n
                                 THEN "drawY" ELSE "finish"
                     /\ UNCHANGED error
    /\ UNCHANGED <<prog, rngEntry, args, y, estimate, prev, usageVars, lpVars>>

\* lines 54-55: the division raises ZeroDivisionError for points_number = 0
Return ==
    /\ pc = "finish"
    /\ IF args.points_number.n = 0
          THEN /\ pc' = "failed"
               /\ error' = "ZeroDivisionError"
               /\ UNCHANGED estimate
          ELSE /\ pc' = "returned"
               /\ estimate' = Estimate(count, args.points_number.n,
                                       args.xmax, args.ymax)
               /\ UNCHANGED error
    /\ UNCHANGED <<prog, rng, rngEntry, args, i, y, count, points, prev,
                   usageVars, lpVars>>

\* the caller is done with the outcome of the call: nothing of it is kept
Discard ==
    /\ Quiescent
    /\ ~Idle
    /\ ResetMc
    /\ ResetUsage
    /\ prev' = NoOutcome
    /\ UNCHANGED <<prog, lpVars>>

\* unrelated code draws from the shared generator: random.random()
OtherDraw ==
    /\ Quiescent
    /\ rng' = Advance(rng)
    /\ UNCHANGED <<prog, rngEntry, args, pc, i, y, count, points, error,
                   estimate, prev, usageVars, lpVars>>

\* unrelated code seeds the shared generator: random.seed(k)
OtherSeed(k) ==
    /\ Quiescent
    /\ rng' = SeedState(k)
    /\ UNCHANGED <<prog, rngEntry, args, pc, i, y, count, points, error,
                   estimate, prev, usageVars, lpVars>>

----------------------------------------------------------------------------
(* usage_example (task2.py lines 58-104)                                   *)

UsageArgs == [xmax : Xmaxs, points_number : PointsNumbers, func : Funcs]

\* line 70: xmax < 0 or not isinstance(xmax, (int, float)), xmax a number
UsageRejects(xmax) == xmax < 0

\* line 74: scipy's quad(func, 0, xmax) for xmax >= 0, a Python float; quad
\* evaluates func strictly inside the interval, so a fault of func at the
\* end point xmax itself is not met
Quad(f, xmax) ==
    CASE f = "sqrt" ->
           [fault |-> FALSE, q |-> Rat(2 * xmax * ISqrt(xmax * Unit), 3 * Unit * Unit)]
      [] f = "zero" -> [fault |-> FALSE, q |-> Rat(0, 1)]
      [] f = "np_float64" ->
           [fault |-> FALSE, q |-> Rat(xmax * xmax, 2 * Unit * Unit)]
      [] f = "partial" ->
           [fault |-> xmax > Unit, q |-> Rat(xmax, Unit)]

\* lines 76-78: abs(a - m) / a * 100 for a # 0
RelativeDifference(a, m) ==
    Rat(Abs(a[1] * m[2] - m[1] * a[2]) * 100 * (IF a[1] < 0 THEN -1 ELSE 1),
        m[2] * Abs(a[1]))

\* lines 76-78: the division by analytical_result.  Between Python floats a
\* zero divisor raises ZeroDivisionError; a numpy scalar dividend divides by
\* numpy's rules, giving nan or inf and a RuntimeWarning, no exception
Divide(a, m) ==
    IF RatIsZero(a)
       THEN IF m.np
               THEN [raised |-> FALSE,
                     value |-> [some |-> TRUE, nan |-> TRUE, q |-> Rat(0, 1)]]
               ELSE [raised |-> TRUE, value |-> NoDifference]
       ELSE [raised |-> FALSE,
             value |-> [some |-> TRUE, nan |-> FALSE,
                        q |-> RelativeDifference(a, m.q)]]

\* lines 70-75: the guard, the reference integral, func(xmax) and the entry
\* of integral_mc(xmax, func(xmax), func, points_number)
CallUsageExample(u) ==
    /\ Idle
    /\ uargs' = u
    /\ difference' = NoDifference
    /\ prev' = NoOutcome
    /\ IF UsageRejects(u.xmax)
          THEN /\ upc' = "rejected"
               /\ shown' = {"xmax must be a positive number"}
               /\ uerror' = NoError
               /\ analytical' = NoReal
               /\ ResetMc
          ELSE /\ shown' = {}
               /\ IF Quad(u.func, u.xmax).fault
                     THEN /\ upc' = "failed"
                          /\ uerror' = "FuncFault"
                          /\ analytical' = NoReal
                          /\ ResetMc
                     ELSE /\ analytical' = [some |-> TRUE,
                                           q |-> Quad(u.func, u.xmax).q]
                          /\ IF ApplyFunc(u.func, u.xmax).fault
                                THEN /\ upc' = "failed"
                                     /\ uerror' = "FuncFault"
                                     /\ ResetMc
                                ELSE /\ upc' = "mc"
                                     /\ uerror' = NoError
                                     /\ Enter([xmax |-> u.xmax,
                                               ymax |-> ApplyFunc(u.func, u.xmax),
                                               func |-> u.func,
                                               points_number |-> u.points_number,
                                               seed |-> NoSeed])
    /\ UNCHANGED <<prog, lpVars>>

\* lines 75-78: integral_mc has ended; its exception passes through, its
\* value goes into difference_percent
UsageDifference ==
    /\ upc = "mc"
    /\ Finished
    /\ IF pc = "failed"
          THEN /\ upc' = "failed"
               /\ uerror' = error
               /\ UNCHANGED difference
          ELSE LET d == Divide(analytical.q, estimate)
               IN IF d.raised
                     THEN /\ upc' = "failed"
                          /\ uerror' = "ZeroDivisionError"
                          /\ UNCHANGED difference
                     ELSE /\ upc' = "print"
                          /\ difference' = d.value
                          /\ UNCHANGED uerror
    /\ UNCHANGED <<prog, mcVars, uargs, analytical, shown, lpVars>>

\* lines 80-83
UsagePrint ==
    /\ upc = "print"
    /\ upc' = "plot"
    /\ shown' = shown \cup {"results"}
    /\ UNCHANGED <<prog, mcVars, uargs, analytical, difference, uerror, lpVars>>

\* lines 85-104
UsagePlot ==
    /\ upc = "plot"
    /\ upc' = "done"
    /\ shown' = shown \cup {"plot"}
    /\ UNCHANGED <<prog, mcVars, uargs, analytical, difference, uerror, lpVars>>

----------------------------------------------------------------------------
(* task1.py: production_optimization, print_results, main                  *)

WATER_AVAILABLE == 100
SUGAR_AVAILABLE == 50
LEMON_JUICE_AVAILABLE == 30
FRUIT_PUREE_AVAILABLE == 40

WATER_PER_LEMONADE == 2
SUGAR_PER_LEMONADE == 1
LEMON_JUICE_PER_LEMONADE == 1
FRUIT_PUREE_PER_LEMONADE == 0
WATER_PER_JUICE == 1
SUGAR_PER_JUICE == 0
FRUIT_PUREE_PER_JUICE == 2
LEMON_JUICE_PER_JUICE == 0

Constraint(name, perJuice, perLemonade, available) ==
    [name |-> name, juice |-> perJuice, lemonade |-> perLemonade,
     rhs |-> available]

\* lines 61-64 broken: the lemon juice row is bounded by the sugar stock
ConstraintsWrongStock ==
    << Constraint("Water_Constraint",
                  WATER_PER_JUICE, WATER_PER_LEMONADE, WATER_AVAILABLE),
       Constraint("Sugar_Constraint",
                  SUGAR_PER_JUICE, SUGAR_PER_LEMONADE, SUGAR_AVAILABLE),
       Constraint("Lemon_Juice_Constraint",
                  LEMON_JUICE_PER_JUICE, LEMON_JUICE_PER_LEMONADE, SUGAR_AVAILABLE),
       Constraint("Fruit_Puree_Constraint",
                  FRUIT_PUREE_PER_JUICE, FRUIT_PUREE_PER_LEMONADE, FRUIT_PUREE_AVAILABLE) >>

\* lines 50-69: the four rows, in the order they are added to the model
Constraints ==
    << Constraint("Water_Constraint",
                  WATER_PER_JUICE, WATER_PER_LEMONADE, WATER_AVAILABLE),
       Constraint("Sugar_Constraint",
                  SUGAR_PER_JUICE, SUGAR_PER_LEMONADE, SUGAR_AVAILABLE),
       Constraint("Lemon_Juice_Constraint",
                  LEMON_JUICE_PER_JUICE, LEMON_JUICE_PER_LEMONADE, LEMON_JUICE_AVAILABLE),
       Constraint("Fruit_Puree_Constraint",
                  FRUIT_PUREE_PER_JUICE, FRUIT_PUREE_PER_LEMONADE, FRUIT_PUREE_AVAILABLE) >>

\* lines 36-45: both variables are integers with lowBound = 0 and no upper
\* bound; the search is over the amounts the water stock alone allows
Amounts == 0..WATER_AVAILABLE

EmptyModel == [created |-> FALSE, objective |-> <<0, 0>>, constraints |-> <<>>]
\* varValue is None until a solver has set it
NoSolution == [status |-> "Not Solved", hasValue |-> FALSE,
               juice |-> 0, lemonade |-> 0]
NoResult == [status |-> "none", juice |-> 0, lemonade |-> 0]

Satisfies(p, m) ==
    \A k \in 1..Len(m.constraints) :
        m.constraints[k].juice * p[1] + m.constraints[k].lemonade * p[2]
            <= m.constraints[k].rhs

Feasible(m) == {p \in Amounts \X Amounts : Satisfies(p, m)}

Objective(p, m) == m.objective[1] * p[1] + m.objective[2] * p[2]

\* line 72: what an exact solver may return for the maximization problem m
Optimal(m) ==
    LET F == Feasible(m)
        best == CHOOSE t \in {Objective(p, m) : p \in F} :
                    \A q \in F : Objective(q, m) <= t
    IN {p \in F : Objective(p, m) = best}

\* lines 33-45: the LpProblem and its two decision variables
CreateModel ==
    /\ prog = "task1"
    /\ lpc = "start"
    /\ model' = [EmptyModel EXCEPT !.created = TRUE]
    /\ lpc' = "objective"
    /\ UNCHANGED <<prog, mcVars, usageVars, solution, result>>

\* line 48: model += juice + lemonade
SetObjective ==
    /\ lpc = "objective"
    /\ model' = [model EXCEPT !.objective = <<1, 1>>]
    /\ lpc' = "constraints"
    /\ UNCHANGED <<prog, mcVars, usageVars, solution, result>>

\* lines 50-69: the next row is added
AddConstraint ==
    /\ lpc = "constraints"
    /\ Len(model.constraints) < Len(Constraints)
    /\ model' = [model EXCEPT !.constraints =
                     Append(@, Constraints[Len(model.constraints) + 1])]
    /\ UNCHANGED <<prog, mcVars, usageVars, lpc, solution, result>>

\* line 72: status = model.solve()
Solve ==
    /\ lpc = "constraints"
    /\ Len(model.constraints) = Len(Constraints)
    /\ IF Feasible(model) = {}
          THEN solution' = [NoSolution EXCEPT !.status = "Infeasible"]
          ELSE \E p \in Optimal(model) :
                   solution' = [status |-> "Optimal", hasValue |-> TRUE,
                                juice |-> p[1], lemonade |-> p[2]]
    /\ lpc' = "solved"
    /\ UNCHANGED <<prog, mcVars, usageVars, model, result>>

\* lines 75-81: the result dict; a varValue of None becomes 0
PrepareResult ==
    /\ lpc = "solved"
    /\ result' = [status |-> solution.status,
                  juice |-> IF solution.hasValue THEN solution.juice ELSE 0,
                  lemonade |-> IF solution.hasValue
                                  THEN solution.lemonade ELSE 0]
    /\ lpc' = "returned"
    /\ UNCHANGED <<prog, mcVars, usageVars, model, solution>>

\* lines 84-127: main prints the result
PrintResults ==
    /\ lpc = "returned"
    /\ lpc' = "printed"
    /\ UNCHANGED <<prog, mcVars, usageVars, model, solution, result>>

----------------------------------------------------------------------------
(* The two programs *)

Init ==
    /\ prog \in {"task1", "task2"}
    /\ rng \in 0..(RngMod - 1)
    /\ rngEntry = rng
    /\ args = NoArgs
    /\ pc = "idle"
    /\ i = 0
    /\ y = 0
    /\ count = 0
    /\ points = <<>>
    /\ error = NoError
    /\ estimate = NoEstimate
    /\ prev = NoOutcome
    /\ upc = "none"
    /\ uargs = NoUsageArgs
    /\ analytical = NoReal
    /\ difference = NoDifference
    /\ uerror = NoError
    /\ shown = {}
    /\ lpc = "start"
    /\ model = EmptyModel
    /\ solution = NoSolution
    /\ result = NoResult

Next ==
    \/ \E a \in McArgs : CallIntegralMc(a)
    \/ CallAgain
    \/ SeedStep
    \/ DrawY
    \/ DrawX
    \/ Return
    \/ Discard
    \/ OtherDraw
    \/ \E k \in SeedValues : OtherSeed(k)
    \/ \E u \in UsageArgs : CallUsageExample(u)
    \/ UsageDifference
    \/ UsagePrint
    \/ UsagePlot
    \/ CreateModel
    \/ SetObjective
    \/ AddConstraint
    \/ Solve
    \/ PrepareResult
    \/ PrintResults

Spec == Init /\ [][Next]_vars

----------------------------------------------------------------------------
(* Properties *)

PositiveInt(pn) == pn.isInt /\ pn.n > 0

\* positions of integral_mc between its validation and its end
Sampling == pc \in {"seed", "drawY", "drawX", "finish"}

\* the rectangle area xmax * ymax of the current call
RectangleArea == Rat(args.xmax * args.ymax.v, Unit * Unit)

\* the sampled points (x, y) of the current call with y <= func(x)
UnderCurve ==
    {j \in 1..Len(points) :
        /\ ~ApplyFunc(args.func, points[j].x).fault
        /\ points[j].y <= ApplyFunc(args.func, points[j].x).v}

\* the sampled points of the current call at which func raises
Faulting == {j \in 1..Len(points) : ApplyFunc(args.func, points[j].x).fault}

\* the bounds of the current call are positive
PositiveBounds == args.xmax > 0 /\ args.ymax.v > 0

\* C1 (as claimed), on calls with positive bounds: a call whose
\* points_number is not a positive integer (0, -5, 3.5) ends, and ends with
\* ValueError; a call with points_number = 1 and a func that does not raise
\* returns a value in [0, xmax * ymax].
C1_InvalidCountIsValueError ==
    /\ (Finished /\ PositiveBounds /\ ~PositiveInt(args.points_number))
          => (pc = "failed" /\ error = "ValueError")
    /\ (Finished /\ PositiveBounds /\ args.points_number = IntPn(1)
          /\ Faulting = {})
          => (/\ pc = "returned"
              /\ RatLe(Rat(0, 1), estimate.q)
              /\ RatLe(estimate.q, RectangleArea))

\* C2: every call that returns has sampled exactly points_number points and
\* returns (under_curve_count / points_number) * (xmax * ymax), where
\* under_curve_count is the number of sampled points with y <= func(x), a
\* point on the curve included.
C2_EstimateIsScaledFraction ==
    pc = "returned" =>
        /\ Len(points) = args.points_number.n
        /\ count = Cardinality(UnderCurve)
        /\ estimate.some
        /\ RatEq(estimate.q,
                 Rat(Cardinality(UnderCurve) * (args.xmax * args.ymax.v),
                     args.points_number.n * (Unit * Unit)))

\* C2 witness: a returned call on positive bounds with a point exactly on
\* the curve, counted, and a point above the curve, not counted.
C2_Witness ==
    /\ pc = "returned"
    /\ PositiveBounds
    /\ estimate.q[1] # 0
    /\ \E j \in UnderCurve : points[j].y = ApplyFunc(args.func, points[j].x).v
    /\ \E j \in 1..Len(points) : j \notin UnderCurve

\* the inputs the claims call valid
ValidInputs == PositiveBounds /\ PositiveInt(args.points_number)

\* C3: for valid inputs, at every step of the tally and at return
\* 0 <= under_curve_count <= points_number, and the returned estimate lies
\* in [0, xmax * ymax].
C3_Boundedness ==
    (pc # "idle" /\ ValidInputs) =>
        /\ 0 <= count
        /\ count <= i
        /\ i <= args.points_number.n
        /\ pc = "returned" =>
              /\ RatLe(Rat(0, 1), estimate.q)
              /\ RatLe(estimate.q, RectangleArea)

\* C3 witness: a returned call on valid inputs with at least two points, all
\* of them under the curve, so that the estimate is the whole rectangle.
C3_Witness ==
    /\ pc = "returned"
    /\ ValidInputs
    /\ args.points_number.n >= 2
    /\ count = args.points_number.n
    /\ RatEq(estimate.q, RectangleArea)

\* C4: a seeded call made again with the same arguments ends the same way,
\* with the same exception or the same returned value, whatever was done to
\* the generator before and between the two calls.
C4_SeededDeterminism ==
    (Finished /\ upc = "none" /\ prev # NoOutcome /\ args.seed.given)
        => Outcome = prev

\* C4 witness: a seeded call on positive bounds repeated and returned,
\* entered with the generator in another state than the seed's and than the
\* call leaves it in, and with some points under the curve and some not.
C4_Witness ==
    /\ pc = "returned"
    /\ PositiveBounds
    /\ upc = "none"
    /\ prev # NoOutcome
    /\ args.seed.given
    /\ rngEntry # SeedState(args.seed.k)
    /\ rngEntry # rng
    /\ 0 < count
    /\ count < args.points_number.n

\* C5 (as claimed), on calls with valid inputs: a call draws from a
\* generator of its own, so the shared generator is in the state it had at
\* the call's entry at every position of the call, and unrelated code
\* running after the call sees the stream it would have seen without it.
C5_GeneratorIsolation ==
    (Sampling /\ ValidInputs) => rng = rngEntry

\* C6 (as claimed), on calls with positive bounds: at the step at which a
\* call fails on a points_number that is not a positive integer, the
\* generator is as it was at the call's entry, neither seeded nor advanced,
\* and no point has been sampled.
C6_InvalidCountLeavesGenerator ==
    [][(/\ pc # "failed"
        /\ pc' = "failed"
        /\ args'.xmax > 0
        /\ args'.ymax.v > 0
        /\ ~PositiveInt(args'.points_number))
          => (rng' = rngEntry' /\ points' = <<>>)]_vars

\* C7 (as claimed): when the reference value is exactly zero the relative
\* difference fails with the division error, whatever the estimate; no
\* difference is computed and nothing is printed or plotted.
C7_ZeroReferenceFails ==
    (/\ upc \in {"print", "plot", "done", "failed"}
     /\ pc = "returned"
     /\ analytical.some
     /\ RatIsZero(analytical.q))
        => (/\ upc = "failed"
            /\ uerror = "ZeroDivisionError"
            /\ ~difference.some
            /\ shown = {})

\* C8: a fault of func at a sampled point ends the call there with that
\* fault: the faulting point is the last one drawn, it is not counted, and
\* nothing is returned; a call that returns has classified all
\* points_number points, none of them faulting; a failed call returns
\* nothing.
C8_FaultPropagates ==
    /\ (pc # "idle" /\ Faulting # {}) =>
          /\ pc = "failed"
          /\ error = "FuncFault"
          /\ Faulting = {Len(points)}
          /\ i = Len(points) - 1
          /\ ~estimate.some
    /\ pc = "returned" =>
          /\ Faulting = {}
          /\ i = args.points_number.n
          /\ Len(points) = args.points_number.n
          /\ estimate.some
    /\ estimate.some => pc = "returned"

\* C8 witness: on valid inputs func raises at the first of two points; the
\* call has failed with one point drawn.
C8_Witness ==
    /\ pc = "failed"
    /\ error = "FuncFault"
    /\ ValidInputs
    /\ Len(points) = 1
    /\ args.points_number.n = 2

\* C9 (as claimed), on calls with a positive integer points_number: a call
\* with xmax <= 0 or ymax <= 0 samples no point, returns no estimate and
\* ends with ValueError.
C9_NonPositiveBoundsRejected ==
    (/\ pc # "idle"
     /\ PositiveInt(args.points_number)
     /\ (args.xmax <= 0 \/ args.ymax.v <= 0))
        => (/\ points = <<>>
            /\ ~estimate.some
            /\ Finished => error = "ValueError")

\* C10: production_optimization ends with status Optimal, juice = 20 and
\* lemonade = 30: non-negative integers that satisfy the four constraints
\* and whose total, 50, is the largest total of any feasible pair of
\* non-negative integers and is reached by no other feasible pair.
C10_OptimalProduction ==
    LET FeasiblePair(j, l) ==
            j + 2 * l <= 100 /\ l <= 50 /\ l <= 30 /\ 2 * j <= 40
    IN /\ lpc \in {"solved", "returned", "printed"} =>
             /\ solution.status = "Optimal"
             /\ solution.hasValue
             /\ solution.juice \in Nat
             /\ solution.lemonade \in Nat
             /\ FeasiblePair(solution.juice, solution.lemonade)
             /\ solution.juice = 20
             /\ solution.lemonade = 30
             /\ \A j \in 0..100 : \A l \in 0..100 :
                   FeasiblePair(j, l) =>
                       /\ j + l <= solution.juice + solution.lemonade
                       /\ (j + l = solution.juice + solution.lemonade
                              => (j = solution.juice /\ l = solution.lemonade))
       /\ lpc \in {"returned", "printed"} =>
             result = [status |-> "Optimal", juice |-> 20, lemonade |-> 30]

\* C10 witness: production_optimization has returned a total of 50.
C10_Witness ==
    /\ lpc = "returned"
    /\ Len(model.constraints) = 4
    /\ result.juice + result.lemonade = 50

====
